---- MODULE Spec2Model ----
(***************************************************************************)
(* Model of the biology word-search game: the scoring of a submission      *)
(* (backend/game_api.py submit_game, backend/biology_game.py               *)
(* calculate_results), the grid repair of WordSearchGenerator, the         *)
(* distractor stage, the research pipeline and the session store.          *)
(*                                                                         *)
(* Text is modelled as a sequence of one-character strings, so that        *)
(* str.upper, str.isalpha, str.strip and str.split are computed character  *)
(* by character as Python computes them.                                   *)
(***************************************************************************)
EXTENDS Integers, Sequences, FiniteSets, TLC

VARIABLES
    target_words,   \* scoring: the session's target words
    found_words,    \* scoring: the submitted foundWords
    submit_out,     \* scoring: what submit_game computes (lines 161-177)
    calc_out,       \* scoring: what calculate_results returns
    score_pc,       \* scoring: "input" before the evaluation, "scored" after
    response,       \* generate_grid: response.content of the generation call
    grid,           \* generate_grid: the grid returned
    grid_pc,        \* generate_grid: "call" before the repair, "returned" after
    variant,        \* distractor stage: "cli" (biology_game.py) or "backend"
    stage_in,       \* distractor stage: the ResearchState the stage is given
    ext,            \* distractor stage: what the external calls return or raise
    stage_out,      \* distractor stage: the state returned, or the error raised
    stage_pc,       \* distractor stage: "call" before the stage, "done" after
    game_store,     \* server: the module-level dict of game_api.py line 23
    api_key,        \* server: whether ANTHROPIC_API_KEY is set
    pc,             \* server: where each request thread is in its handler
    request,        \* server: the request each thread is serving
    locals,         \* server: the local variables of each thread's handler
    reply,          \* server: the last response each thread returned
    consumed,       \* history: the gameIds a submission has succeeded for
    raced           \* history: threads whose submission overlapped another
                    \* submission for the same gameId

scoreVars == <<target_words, found_words, submit_out, calc_out, score_pc>>
gridVars == <<response, grid, grid_pc>>
stageVars == <<variant, stage_in, ext, stage_out, stage_pc>>
serverVars == <<game_store, api_key, pc, request, locals, reply, consumed, raced>>
vars == <<scoreVars, gridVars, stageVars, serverVars>>

\* The variables of the other components, which a component leaves idle.
ScoreIdle ==
    /\ target_words = <<>> /\ found_words = <<>>
    /\ submit_out = [none |-> TRUE] /\ calc_out = [none |-> TRUE]
    /\ score_pc = "idle"
GridIdle == response = <<>> /\ grid = <<>> /\ grid_pc = "idle"
StageIdle ==
    /\ variant = "none" /\ stage_in = [none |-> TRUE] /\ ext = [none |-> TRUE]
    /\ stage_out = [none |-> TRUE] /\ stage_pc = "idle"
ServerIdle ==
    /\ game_store = <<>> /\ api_key = FALSE /\ pc = <<>> /\ request = <<>>
    /\ locals = <<>> /\ reply = <<>> /\ consumed = {} /\ raced = {}

(***************************************************************************)
(* Characters and strings                                                  *)
(***************************************************************************)

LowerLetters == <<"a", "b", "c", "d", "e", "f", "g", "h", "i", "j", "k", "l", "m",
                  "n", "o", "p", "q", "r", "s", "t", "u", "v", "w", "x", "y", "z">>
UpperLetters == <<"A", "B", "C", "D", "E", "F", "G", "H", "I", "J", "K", "L", "M",
                  "N", "O", "P", "Q", "R", "S", "T", "U", "V", "W", "X", "Y", "Z">>

IndexIn(c, letters) == CHOOSE i \in 1..Len(letters) : letters[i] = c

\* str.upper() of one character.  The sharp s has a two-character upper
\* case; characters without case are returned unchanged.
UpperChar(c) ==
    IF \E i \in 1..Len(LowerLetters) : LowerLetters[i] = c
    THEN <<UpperLetters[IndexIn(c, LowerLetters)]>>
    ELSE IF c = "é" THEN <<"É">>
    ELSE IF c = "ß" THEN <<"S", "S">>
    ELSE <<c>>

\* str.lower() of one character
LowerChar(c) ==
    IF \E i \in 1..Len(UpperLetters) : UpperLetters[i] = c
    THEN LowerLetters[IndexIn(c, UpperLetters)]
    ELSE IF c = "É" THEN "é"
    ELSE c

\* str.lower() of a string
Lower(w) == [i \in 1..Len(w) |-> LowerChar(w[i])]

\* str.upper() of a string: the upper case of each character, concatenated.
RECURSIVE Upper(_)
Upper(w) ==
    IF w = <<>> THEN <<>> ELSE UpperChar(Head(w)) \o Upper(Tail(w))

\* x in list
InList(x, list) == \E i \in 1..Len(list) : list[i] = x

\* [f(x) for x in list]
UpperAll(list) == [i \in 1..Len(list) |-> Upper(list[i])]

\* Python 3 round() of the quotient num/den of two naturals to an integer:
\* the nearest integer, a tie going to the even one.
RoundHalfEven(num, den) ==
    LET q == num \div den
        r == num % den
    IN  IF 2 * r < den THEN q
        ELSE IF 2 * r > den THEN q + 1
        ELSE IF q % 2 = 0 THEN q ELSE q + 1

(***************************************************************************)
(* Scoring.  A score is kept in tenths of a percent (score10 = 10 * score), *)
(* which holds both round(x) and round(x, 1) exactly.                      *)
(***************************************************************************)

\* game_api.py line 165
submit_correct_found(normalized_found, normalized_target) ==
    SelectSeq(normalized_found, LAMBDA word : InList(word, normalized_target))

\* the comparison of line 166 with the upper-casing of the target forgotten
submit_missed_words_nocase(target, normalized_found) ==
    SelectSeq(target, LAMBDA word : ~InList(word, normalized_found))

\* game_api.py line 166
submit_missed_words(target, normalized_found) ==
    SelectSeq(target, LAMBDA word : ~InList(Upper(word), normalized_found))

\* game_api.py line 168: round(len(correct_found) / len(target_words) * 100)
submit_score10(correct_found, target) ==
    IF target # <<>>
    THEN 10 * RoundHalfEven(100 * Len(correct_found), Len(target))
    ELSE 0

\* lines 161-177 as they would be if the count of line 176 were taken from
\* the shared store instead of the session's own list
submit_game_result_shared(target, found) ==
    LET normalized_target == UpperAll(target)
        normalized_found == UpperAll(found)
        correct_found == submit_correct_found(normalized_found, normalized_target)
    IN  [ targetWords |-> target,
          foundWords |-> correct_found,
          missedWords |-> submit_missed_words(target, normalized_found),
          score10 |-> submit_score10(correct_found, target),
          totalWords |-> Cardinality(DOMAIN game_store) ]

\* game_api.py lines 161-177: the result of a submission
submit_game_result(target, found) ==
    LET normalized_target == UpperAll(target)
        normalized_found == UpperAll(found)
        correct_found == submit_correct_found(normalized_found, normalized_target)
        missed_words == submit_missed_words(target, normalized_found)
    IN  [ targetWords |-> target,
          foundWords |-> correct_found,
          missedWords |-> missed_words,
          score10 |-> submit_score10(correct_found, target),
          totalWords |-> Len(target) ]

\* biology_game.py lines 438-453
calculate_results(target, found) ==
    LET target_upper == UpperAll(target)
        found_upper == UpperAll(found)
        correct_found == SelectSeq(found_upper, LAMBDA word : InList(word, target_upper))
        missed_words == SelectSeq(target, LAMBDA word : ~InList(Upper(word), found_upper))
        score10 == IF target # <<>>
                   THEN RoundHalfEven(1000 * Len(correct_found), Len(target))
                   ELSE 0
    IN  [ correct_found |-> correct_found,
          missed_words |-> missed_words,
          score10 |-> score10,
          total_words |-> Len(target) ]

\* Bounds of the scoring inputs
MaxWordLen == 1
MaxTargets == 3
MaxFound == 2

WordChars == {"a", "A", "b"}

SeqsUpTo(S, n) == UNION {[1..k -> S] : k \in 0..n}

Words == SeqsUpTo(WordChars, MaxWordLen) \ {<<>>}

NoResult == [none |-> TRUE]

ScoreInit ==
    /\ target_words \in SeqsUpTo(Words, MaxTargets)
    /\ found_words \in SeqsUpTo(Words, MaxFound)
    /\ submit_out = NoResult
    /\ calc_out = NoResult
    /\ score_pc = "input"
    /\ GridIdle
    /\ StageIdle
    /\ ServerIdle

\* One evaluation of both scoring routines on the same lists.
Score ==
    /\ score_pc = "input"
    /\ submit_out' = submit_game_result(target_words, found_words)
    /\ calc_out' = calculate_results(target_words, found_words)
    /\ score_pc' = "scored"
    /\ UNCHANGED <<target_words, found_words, gridVars, stageVars, serverVars>>

ScoreNext == Score

SpecScore == ScoreInit /\ [][ScoreNext]_vars

(***************************************************************************)
(* Properties of the scoring                                               *)
(***************************************************************************)

\* Indices of the target terms that no found term matches when both are
\* upper-cased.
UnmatchedTargets ==
    { i \in 1..Len(target_words) :
        \A j \in 1..Len(found_words) :
            Upper(found_words[j]) # Upper(target_words[i]) }

\* The k-th smallest element of a set of naturals
KthOf(S, k) == CHOOSE i \in S : Cardinality({j \in S : j <= i}) = k

\* list is the terms of target_words at the indices of UnmatchedTargets, in
\* index order
IsMissedList(list) ==
    /\ Len(list) = Cardinality(UnmatchedTargets)
    /\ \A k \in 1..Len(list) : list[k] = target_words[KthOf(UnmatchedTargets, k)]

\* C8: the correct-found list is the sub-sequence of the found terms, each in
\* its original submitted case, whose upper-cased form is among the
\* upper-cased target terms, in found-list order, duplicates kept.
C8_CorrectFoundOriginalCase ==
    score_pc = "scored" =>
        LET expected ==
                SelectSeq(found_words,
                          LAMBDA w : \E i \in 1..Len(target_words) :
                                         Upper(target_words[i]) = Upper(w))
        IN  /\ submit_out.foundWords = expected
            /\ calc_out.correct_found = expected

\* C9: the missed list is exactly the target terms, in original case and
\* target order, whose upper-cased form is not among the upper-cased found
\* terms; a target term is missed iff no found term matched it.
C9_MissedTerms ==
    score_pc = "scored" =>
        /\ IsMissedList(submit_out.missedWords)
        /\ IsMissedList(calc_out.missed_words)

\* C9 witness: scored lists where one target is matched only through a
\* difference of case and another target is missed.
C9_Witness ==
    /\ score_pc = "scored"
    /\ submit_out.missedWords # <<>>
    /\ Len(submit_out.missedWords) < Len(target_words)
    /\ \E i \in 1..Len(target_words) :
           /\ i \notin UnmatchedTargets
           /\ ~InList(target_words[i], found_words)

\* C10: the score of a submission is len(correctFound) / len(targetTerms)
\* * 100 rounded to one decimal place (the nearest tenth) when targetTerms is
\* non-empty, and 0 when it is empty.
C10_ScoreOneDecimal ==
    score_pc = "scored" =>
        LET n == Len(target_words)
            c == Len(submit_out.foundWords)
            d == submit_out.score10 * n - 1000 * c
        IN  /\ submit_out.totalWords = n
            /\ IF n = 0
               THEN submit_out.score10 = 0
               ELSE 2 * (IF d < 0 THEN -d ELSE d) <= n

\* C28: for every session, whose target list is not empty, and every
\* found-word list, lists with repeated words included, the score lies
\* between 0 and 100 inclusive and the number of correct-found words does
\* not exceed totalWords.
C28_ScoreWithinRange ==
    (score_pc = "scored" /\ target_words # <<>>) =>
        /\ submit_out.score10 >= 0
        /\ submit_out.score10 <= 1000
        /\ Len(submit_out.foundWords) <= submit_out.totalWords
        /\ calc_out.score10 >= 0
        /\ calc_out.score10 <= 1000
        /\ Len(calc_out.correct_found) <= calc_out.total_words

(***************************************************************************)
(* WordSearchGenerator.generate_grid: the repair of the generated grid      *)
(***************************************************************************)

AZ == { UpperLetters[i] : i \in 1..Len(UpperLetters) }

\* str.isalpha() of one character: true of every Unicode letter, not only of
\* A-Z and a-z.
IsAlpha(c) ==
    c \in AZ \cup { LowerLetters[i] : i \in 1..Len(LowerLetters) } \cup {"é", "É", "ß"}

\* The characters str.strip() removes
IsSpace(c) == c \in {" ", "\n", "\t"}

RECURSIVE LStrip(_)
LStrip(s) == IF s # <<>> /\ IsSpace(Head(s)) THEN LStrip(Tail(s)) ELSE s

RECURSIVE RStrip(_)
RStrip(s) ==
    IF s # <<>> /\ IsSpace(s[Len(s)]) THEN RStrip(SubSeq(s, 1, Len(s) - 1)) ELSE s

\* str.strip()
Strip(s) == RStrip(LStrip(s))

\* s.split(sep) for a one-character separator: the pieces between the
\* separators, empty pieces kept; the empty string gives one empty piece.
RECURSIVE SplitAcc(_, _, _)
SplitAcc(s, sep, piece) ==
    IF s = <<>> THEN <<piece>>
    ELSE IF Head(s) = sep THEN <<piece>> \o SplitAcc(Tail(s), sep, <<>>)
    ELSE SplitAcc(Tail(s), sep, Append(piece, Head(s)))

Split(s, sep) == SplitAcc(s, sep, <<>>)

\* line.replace(' ', '')
RemoveSpaces(line) == SelectSeq(line, LAMBDA c : c # " ")

\* line 414: [c.upper() for c in line.replace(' ', '') if c.isalpha()].
\* A cell is the string c.upper(), a sequence of characters.
ParseRow(line) ==
    LET letters == SelectSeq(RemoveSpaces(line), IsAlpha)
    IN  [i \in 1..Len(letters) |-> UpperChar(letters[i])]

\* row[:size]
Take(row, size) == SubSeq(row, 1, IF Len(row) < size THEN Len(row) ELSE size)

\* the loop as it would be if an accepted row were put in front of the rows
\* accepted so far
RECURSIVE ParseLinesInFront(_, _, _)
ParseLinesInFront(lines, acc, size) ==
    IF lines = <<>> \/ Len(acc) >= size THEN acc
    ELSE LET row == ParseRow(Head(lines))
         IN  IF Len(row) >= size
             THEN ParseLinesInFront(Tail(lines), <<Take(row, size)>> \o acc, size)
             ELSE ParseLinesInFront(Tail(lines), acc, size)

\* lines 411-416: the loop over the lines of the response
RECURSIVE ParseLines(_, _, _)
ParseLines(lines, acc, size) ==
    IF lines = <<>> \/ Len(acc) >= size THEN acc
    ELSE LET row == ParseRow(Head(lines))
         IN  IF Len(row) >= size
             THEN ParseLines(Tail(lines), Append(acc, Take(row, size)), size)
             ELSE ParseLines(Tail(lines), acc, size)

\* The letters chr(random.randint(65, 90)) is drawn from in the model: the
\* two ends of the range.
RandomLetters == {"A", "Z"}

\* lines 407-429.  fill[i][j] is the letter the random source gives for
\* cell j of row i, should the code draw one.
generate_grid(content, size, fill) ==
    LET lines == Split(Strip(content), "\n")
        parsed == ParseLines(lines, <<>>, size)
        \* lines 419-421: fill the missing rows with random letters
        filled == [i \in 1..size |->
                     IF i <= Len(parsed) THEN parsed[i]
                     ELSE [j \in 1..size |-> <<fill[i][j]>>]]
        \* lines 424-427: pad a short row, cut a long one
    IN  [i \in 1..size |->
            [j \in 1..size |->
                IF j <= Len(filled[i]) THEN filled[i][j] ELSE <<fill[i][j]>>]]

\* Bounds of the grid inputs: the side of the grid (size, 15 by default) and
\* the number of lines of a response.
GridSize == 2
MaxLines == 3

Rep(c, n) == [i \in 1..n |-> c]

\* Lines a response is made of: exactly GridSize capitals; lower case;
\* one letter too many; letters separated by spaces; one letter too few and
\* a digit; letters outside A-Z; a letter whose upper case is two
\* characters; an empty line.
SampleLines ==
    { Rep("A", GridSize),
      Rep("b", GridSize),
      Rep("C", GridSize + 1),
      [i \in 1..(2 * GridSize) |-> IF i % 2 = 1 THEN "a" ELSE " "],
      Append(Rep("A", GridSize - 1), "1"),
      Rep("é", GridSize),
      <<"ß">> \o Rep("A", GridSize - 1),
      <<>> }

\* "\n".join(lines)
RECURSIVE JoinLines(_)
JoinLines(lines) ==
    IF lines = <<>> THEN <<>>
    ELSE IF Len(lines) = 1 THEN Head(lines)
    ELSE Head(lines) \o <<"\n">> \o JoinLines(Tail(lines))

Responses == { JoinLines(ls) : ls \in SeqsUpTo(SampleLines, MaxLines) }

GridInit ==
    /\ response \in Responses
    /\ grid = <<>>
    /\ grid_pc = "call"
    /\ ScoreIdle
    /\ StageIdle
    /\ ServerIdle

\* generate_grid returns, the text of the generation call being response.
GenerateGrid ==
    /\ grid_pc = "call"
    /\ \E fill \in [1..GridSize -> [1..GridSize -> RandomLetters]] :
           grid' = generate_grid(response, GridSize, fill)
    /\ grid_pc' = "returned"
    /\ UNCHANGED <<response, scoreVars, stageVars, serverVars>>

GridNext == GenerateGrid

SpecGrid == GridInit /\ [][GridNext]_vars

\* C1: for every text the generation call returns, the grid has exactly
\* GridSize rows of exactly GridSize cells, each cell a single character in
\* A-Z.
C1_GridIsSquareAZ ==
    grid_pc = "returned" =>
        /\ Len(grid) = GridSize
        /\ \A i \in 1..Len(grid) :
               /\ Len(grid[i]) = GridSize
               /\ \A j \in 1..Len(grid[i]) :
                      /\ Len(grid[i][j]) = 1
                      /\ grid[i][j][1] \in AZ

\* The letters of a line of the response, in the order of the line
LettersOf(line) == SelectSeq(line, IsAlpha)

\* The lines of the response that have at least GridSize letters, in the
\* order of the response
AcceptedLines ==
    SelectSeq(Split(response, "\n"), LAMBDA line : Len(LettersOf(line)) >= GridSize)

\* The number of parsed rows: min(N, number of lines with at least N letters)
ParsedRows ==
    IF Len(AcceptedLines) < GridSize THEN Len(AcceptedLines) ELSE GridSize

\* C23: grid repair keeps the accepted lines in the order encountered: the
\* first k rows (k = min(N, number of lines with at least N letters)) are
\* those lines' first N letters upper-cased, in response order; shorter
\* lines are skipped, lines after the N-th accepted one are ignored, and the
\* N - k random rows come after the parsed rows.
C23_ParsedRowsInOrder ==
    grid_pc = "returned" =>
        /\ Len(grid) = GridSize
        /\ \A i \in 1..ParsedRows :
               grid[i] = [j \in 1..GridSize |-> UpperChar(LettersOf(AcceptedLines[i])[j])]
        /\ \A i \in (ParsedRows + 1)..GridSize :
               /\ Len(grid[i]) = GridSize
               /\ \A j \in 1..GridSize : \E l \in RandomLetters : grid[i][j] = <<l>>

\* A response of three lines: a line with too few letters, which is
\* skipped, an empty line, and a line of GridSize lower-case letters.  The
\* first row is that line upper-cased and the rows after it are random.
C23_Witness ==
    /\ grid_pc = "returned"
    /\ response = JoinLines(<<Append(Rep("A", GridSize - 1), "1"), <<>>, Rep("b", GridSize)>>)
    /\ ParsedRows = 1
    /\ grid[1] = Rep(<<"B">>, GridSize)
    /\ \A i \in 2..GridSize : grid[i] = Rep(<<"Z">>, GridSize)

\* A response with more accepted lines than rows: the lines after the
\* GridSize-th accepted one are ignored
C23_WitnessIgnored ==
    /\ grid_pc = "returned"
    /\ Len(AcceptedLines) > GridSize
    /\ AcceptedLines[1] # AcceptedLines[2]
    /\ AcceptedLines[GridSize + 1] # AcceptedLines[1]

(***************************************************************************)
(* The distractor stage, _find_distractors, in its two variants:           *)
(* biology_game.py (the command-line game, a fixed catalogue of topics)    *)
(* and backend/biology_game.py (the API, topics asked of the generator).   *)
(***************************************************************************)

\* str.split() without a separator: the pieces between runs of whitespace
RECURSIVE SplitWsAcc(_, _)
SplitWsAcc(s, piece) ==
    IF s = <<>> THEN (IF piece = <<>> THEN <<>> ELSE <<piece>>)
    ELSE IF IsSpace(Head(s))
         THEN (IF piece = <<>> THEN <<>> ELSE <<piece>>) \o SplitWsAcc(Tail(s), <<>>)
         ELSE SplitWsAcc(Tail(s), Append(piece, Head(s)))

SplitWhitespace(s) == SplitWsAcc(s, <<>>)

\* word in t, for strings: word is a substring of t
IsSubstring(word, t) ==
    \E i \in 0..(Len(t) - Len(word)) : SubSeq(t, i + 1, i + Len(word)) = word

\* the filter with the lower limit of the length off by one
TermFilterFrom3(content, cap) ==
    LET pieces == Split(content, ",")
        terms == [i \in 1..Len(pieces) |-> Strip(pieces[i])]
        kept == SelectSeq(terms, LAMBDA term : Len(term) >= 3 /\ Len(term) < 15)
    IN  Take(kept, cap)

\* The term filter of lines 237-238 (and 160-161): split on commas, strip
\* each piece, keep the pieces of more than 3 and fewer than 15 characters,
\* cut to the cap.
TermFilter(content, cap) ==
    LET pieces == Split(content, ",")
        terms == [i \in 1..Len(pieces) |-> Strip(pieces[i])]
        kept == SelectSeq(terms, LAMBDA term : Len(term) > 3 /\ Len(term) < 15)
    IN  Take(kept, cap)

\* biology_game.py lines 115-119
distractor_topics ==
    << <<"p", "l", "a", "n", "t", " ", "p", "h", "o", "t", "o", "s", "y", "n", "t", "h", "e", "s", "i", "s">>,
       <<"b", "a", "c", "t", "e", "r", "i", "a", "l", " ", "r", "e", "p", "r", "o", "d", "u", "c", "t", "i", "o", "n">>,
       <<"i", "n", "s", "e", "c", "t", " ", "a", "n", "a", "t", "o", "m", "y">>,
       <<"m", "a", "r", "i", "n", "e", " ", "b", "i", "o", "l", "o", "g", "y">>,
       <<"c", "e", "l", "l", "u", "l", "a", "r", " ", "r", "e", "s", "p", "i", "r", "a", "t", "i", "o", "n">>,
       <<"g", "e", "n", "e", "t", "i", "c", " ", "m", "u", "t", "a", "t", "i", "o", "n">>,
       <<"v", "i", "r", "a", "l", " ", "s", "t", "r", "u", "c", "t", "u", "r", "e">>,
       <<"f", "u", "n", "g", "a", "l", " ", "g", "r", "o", "w", "t", "h">>,
       <<"b", "i", "r", "d", " ", "m", "i", "g", "r", "a", "t", "i", "o", "n">>,
       <<"r", "e", "p", "t", "i", "l", "e", " ", "m", "e", "t", "a", "b", "o", "l", "i", "s", "m">> >>

\* biology_game.py line 122
filtered_topics(topic) ==
    LET words == SplitWhitespace(Lower(topic))
    IN  SelectSeq(distractor_topics,
                  LAMBDA t : ~(\E k \in 1..Len(words) : IsSubstring(words[k], Lower(t))))

\* lines 247 / 149: the fallback distractor terms
FallbackDistractors ==
    << <<"c", "h", "l", "o", "r", "o", "p", "l", "a", "s", "t">>, <<"r", "i", "b", "o", "s", "o", "m", "e">>, <<"m", "i", "t", "o", "c", "h", "o", "n", "d", "r", "i", "a">>, <<"e", "n", "z", "y", "m", "e">>, <<"p", "r", "o", "t", "e", "i", "n">>, <<"m", "o", "l", "e", "c", "u", "l", "e">> >>

\* backend line 202
CellularBiology == <<"c", "e", "l", "l", "u", "l", "a", "r", " ", "b", "i", "o", "l", "o", "g", "y">>

\* A stage that raised instead of returning a state
Raised(error) == [raised |-> TRUE, error |-> error]

\* A stage that returned
Returned(state, selected) ==
    [raised |-> FALSE, state |-> state, selected_topic |-> selected]

\* the state as it would be returned if the message replaced the messages
WithDistractorsOnlyMessage(state, terms) ==
    [state EXCEPT
        !.distractor_terms = terms,
        !.messages = <<[role |-> "assistant",
                        content |-> <<"Found distractor terms", Len(terms)>>]>>]

\* lines 250-254 / 151-155: the state returned
WithDistractors(state, terms) ==
    [state EXCEPT
        !.distractor_terms = terms,
        !.messages = Append(@, [role |-> "assistant",
                                content |-> <<"Found distractor terms", Len(terms)>>])]

\* The terms of the try block once the search has returned results, in the
\* command-line variant (lines 129-143): any error of the page fetch or of
\* the generation call reaches the except clause of line 147.
cli_terms_from_results(e) ==
    IF e.page # "ok" THEN FallbackDistractors
    ELSE IF ~e.llm.ok THEN FallbackDistractors
    ELSE TermFilter(e.llm.content, 8)

\* biology_game.py lines 125-149
cli_distractor_terms(e) ==
    IF e.search = "raise" THEN FallbackDistractors
    ELSE IF e.search = "empty" THEN <<>>
    ELSE cli_terms_from_results(e)

\* the candidates as they would be without the filter of line 122
cli_candidates_unfiltered(topic) == Take(distractor_topics, 3)

\* biology_game.py line 123: filtered_topics[:3]
cli_candidates(topic) == Take(filtered_topics(topic), 3)

\* biology_game.py lines 110-155.  pick is the index random.choice draws.
cli_find_distractors(state, e) ==
    LET first3 == cli_candidates(state.topic)
    IN  IF first3 = <<>>
        THEN Raised("IndexError")  \* random.choice of an empty list, line 123
        ELSE Returned(WithDistractors(state, cli_distractor_terms(e)),
                      first3[((e.pick - 1) % Len(first3)) + 1])

\* backend lines 192-203: the distractor topic
backend_selected_topic(e) ==
    IF ~e.topics.ok THEN CellularBiology
    ELSE LET pieces == Split(e.topics.content, ",")
             topics == [i \in 1..Len(pieces) |-> Strip(pieces[i])]
         IN  topics[((e.pick - 1) % Len(topics)) + 1]

\* backend lines 210-238: the search has returned results
backend_terms_from_results(e) ==
    LET fetched ==
            \/ e.page = "ok"
            \/ e.page = "disambiguation" /\ e.page2 = "ok"
    IN  IF ~fetched THEN FallbackDistractors
        ELSE IF ~e.llm.ok THEN FallbackDistractors
        ELSE TermFilter(e.llm.content, 8)

\* backend lines 205-248
backend_distractor_terms(e) ==
    IF e.search = "raise" THEN FallbackDistractors
    ELSE IF e.search = "empty" THEN <<>>
    ELSE backend_terms_from_results(e)

\* backend lines 178-254
backend_find_distractors(state, e) ==
    Returned(WithDistractors(state, backend_distractor_terms(e)),
             backend_selected_topic(e))

(* Inputs of the stage *)

Gene == <<"g", "e", "n", "e">>
CellWall == <<"c", "e", "l", "l", " ", "w", "a", "l", "l">>

\* Pieces of a comma-separated response: a term of 4 characters, a term with
\* blanks around it, a term of 3 characters, terms of 14 and of 15
\* characters, an empty piece.
SamplePieces ==
    { Gene, <<" ">> \o CellWall \o <<" ">>, <<"d", "n", "a">>, Rep("x", 14), Rep("y", 15), <<>> }

\* ",".join(pieces)
RECURSIVE JoinComma(_)
JoinComma(pieces) ==
    IF pieces = <<>> THEN <<>>
    ELSE IF Len(pieces) = 1 THEN Head(pieces)
    ELSE Head(pieces) \o <<",">> \o JoinComma(Tail(pieces))

\* Bound: the number of pieces of a sampled response
MaxPieces == 2

\* Responses of the term extraction: every list of at most MaxPieces sample
\* pieces, and lists of 7 to 11 terms, around the caps of 8 and 10.
TermResponses ==
    { JoinComma(ps) : ps \in SeqsUpTo(SamplePieces, MaxPieces) }
        \cup { JoinComma(Rep(Gene, n)) : n \in 7..11 }

\* What a generation call does: it raises, or it returns a text
LlmRaises == [ok |-> FALSE, content |-> <<>>]
LlmReturns(text) == [ok |-> TRUE, content |-> text]
LlmOutcomes(texts) == {LlmRaises} \cup { LlmReturns(t) : t \in texts }

\* Responses of the backend's request for distractor topics
TopicResponses == { <<"m", "a", "r", "i", "n", "e", " ", "b", "i", "o", "l", "o", "g", "y", ",", " ", "g", "e", "n", "e", "t", "i", "c", "s", " ", ",", "b", "o", "t", "a", "n", "y">>,
                    <<>> }

\* How the external calls of the stage can go.  A call that is not reached
\* is "-".  search: the search raises, returns no result, or returns
\* results; page: the fetch succeeds, reports a disambiguation, reports a
\* missing page, or raises another error; page2: the fetch of the first
\* disambiguation option succeeds, raises, or there is no option.
NotCalled == [ok |-> FALSE, content |-> <<"-">>]
Lookups ==
    {[search |-> "raise", page |-> "-", page2 |-> "-"],
     [search |-> "empty", page |-> "-", page2 |-> "-"],
     [search |-> "results", page |-> "page_error", page2 |-> "-"],
     [search |-> "results", page |-> "raise", page2 |-> "-"],
     [search |-> "results", page |-> "disambiguation", page2 |-> "raise"],
     [search |-> "results", page |-> "disambiguation", page2 |-> "no_options"],
     [search |-> "results", page |-> "disambiguation", page2 |-> "ok"],
     [search |-> "results", page |-> "ok", page2 |-> "-"]}

Fetched(l) == l.page = "ok" \/ (l.page = "disambiguation" /\ l.page2 = "ok")

StageOutcomes ==
    { [search |-> l.search, page |-> l.page, page2 |-> l.page2,
       llm |-> m, topics |-> t, pick |-> k] :
        l \in {x \in Lookups : Fetched(x)}, m \in LlmOutcomes(TermResponses),
        t \in LlmOutcomes(TopicResponses), k \in 1..3 }
    \cup
    { [search |-> l.search, page |-> l.page, page2 |-> l.page2,
       llm |-> NotCalled, topics |-> t, pick |-> k] :
        l \in {x \in Lookups : ~Fetched(x)},
        t \in LlmOutcomes(TopicResponses), k \in 1..3 }

Topics == { <<"p", "l", "a", "n", "t", " ", "c", "e", "l", "l">>,
            <<"p", "a", "r", "t", "s", " ", "o", "f", " ", "a", " ", "c", "e", "l", "l">>,
            <<"K", "i", "d", "n", "e", "y">>,
            <<"M", "a", "r", "i", "n", "e", " ", " ", "B", "i", "o", "l", "o", "g", "y">> }

\* game_api.py lines 100-106 / biology_game.py lines 232-238: the initial
\* state of the workflow
Unset == [set |-> FALSE]
initial_state(topic) ==
    [ messages |-> <<>>,
      topic |-> topic,
      target_terms |-> <<>>,
      distractor_terms |-> <<>>,
      target_descriptions |-> Unset,
      distractor_descriptions |-> Unset,
      research_complete |-> FALSE ]

StageInit ==
    /\ variant \in {"cli", "backend"}
    /\ \E topic \in Topics, terms \in {<<>>, <<Gene>>} :
           stage_in = [initial_state(topic) EXCEPT !.target_terms = terms]
    /\ ext \in StageOutcomes
    /\ stage_out = [none |-> TRUE]
    /\ stage_pc = "call"
    /\ ScoreIdle
    /\ GridIdle
    /\ ServerIdle

\* _find_distractors of the command-line game runs to its end
CliFindDistractors ==
    /\ stage_pc = "call"
    /\ variant = "cli"
    /\ stage_out' = cli_find_distractors(stage_in, ext)
    /\ stage_pc' = "done"
    /\ UNCHANGED <<variant, stage_in, ext, scoreVars, gridVars, serverVars>>

\* _find_distractors of the backend runs to its end
BackendFindDistractors ==
    /\ stage_pc = "call"
    /\ variant = "backend"
    /\ stage_out' = backend_find_distractors(stage_in, ext)
    /\ stage_pc' = "done"
    /\ UNCHANGED <<variant, stage_in, ext, scoreVars, gridVars, serverVars>>

StageNext == CliFindDistractors \/ BackendFindDistractors

SpecDistractor == StageInit /\ [][StageNext]_vars

\* C6: the distractor stage never fails the pipeline: for every topic and
\* every outcome of the lookup and generation calls it raises no error and
\* returns a state carrying a distractor term list.
C6_DistractorStageNeverRaises ==
    stage_pc = "done" =>
        /\ ~stage_out.raised
        /\ "state" \in DOMAIN stage_out
        /\ "distractor_terms" \in DOMAIN stage_out.state

\* The distractor research failed in one of the listed ways: the search
\* returned no results, the page fetch failed, or the generation call of the
\* term extraction failed.
ResearchFailed(e) ==
    \/ e.search = "empty"
    \/ e.search = "results" /\ ~Fetched(e)
    \/ e.search = "results" /\ Fetched(e) /\ ~e.llm.ok

\* C7: whenever distractor research fails in one of the listed ways, the
\* distractor term list is exactly the fixed fallback list.
C7_FailureGivesFallback ==
    (stage_pc = "done" /\ ~stage_out.raised /\ ResearchFailed(ext)) =>
        stage_out.state.distractor_terms = FallbackDistractors

\* The lowercase whitespace-delimited tokens of a text
Tokens(text) == { SplitWhitespace(Lower(text))[i] : i \in 1..Len(SplitWhitespace(Lower(text))) }

\* The command-line stage has returned with a selected distractor topic
CliSelected == variant = "cli" /\ stage_pc = "done" /\ ~stage_out.raised

Caps == {10, 8}

FilterInit ==
    /\ variant = "filter"
    /\ stage_in \in TermResponses
    /\ ext \in Caps
    /\ stage_out = <<>>
    /\ stage_pc = "call"
    /\ ScoreIdle
    /\ GridIdle
    /\ ServerIdle

\* The two lines of the filter applied to a response text
ApplyTermFilter ==
    /\ stage_pc = "call"
    /\ variant = "filter"
    /\ stage_out' = TermFilter(stage_in, ext)
    /\ stage_pc' = "done"
    /\ UNCHANGED <<variant, stage_in, ext, scoreVars, gridVars, serverVars>>

FilterNext == ApplyTermFilter

SpecFilter == FilterInit /\ [][FilterNext]_vars

\* The positions of the commas of a text, and its k-th comma-separated piece
Commas(s) == { i \in 1..Len(s) : s[i] = "," }
PieceCount(s) == Cardinality(Commas(s)) + 1
KthComma(s, k) == CHOOSE i \in Commas(s) : Cardinality({ j \in Commas(s) : j < i }) = k - 1
PieceOf(s, k) ==
    LET from == IF k = 1 THEN 1 ELSE KthComma(s, k - 1) + 1
        to == IF k = PieceCount(s) THEN Len(s) ELSE KthComma(s, k) - 1
    IN  SubSeq(s, from, to)

\* t is the piece p without the whitespace at its two ends
Trimmed(t, p) ==
    \E a \in 1..(Len(p) + 1), b \in 0..Len(p) :
        /\ t = SubSeq(p, a, b)
        /\ \A i \in 1..(a - 1) : p[i] = " "
        /\ \A i \in (b + 1)..Len(p) : p[i] = " "
        /\ t # <<>> => (t[1] # " " /\ t[Len(t)] # " ")

\* The terms are trimmed pieces of the text s, taken from piece k on, in the
\* order of the text
RECURSIVE InResponseOrder(_, _, _)
InResponseOrder(terms, s, k) ==
    IF terms = <<>> THEN TRUE
    ELSE IF k > PieceCount(s) THEN FALSE
    ELSE IF Trimmed(Head(terms), PieceOf(s, k))
         THEN InResponseOrder(Tail(terms), s, k + 1)
         ELSE InResponseOrder(terms, s, k + 1)

\* C16: for every response text, every term the filter produces has a
\* length between 4 and 14, the terms are whitespace-trimmed
\* comma-separated pieces of the response in response order, and there are
\* at most cap of them.
C16_TermFilterBounds ==
    (variant = "filter" /\ stage_pc = "done") =>
        /\ Len(stage_out) <= ext
        /\ \A i \in 1..Len(stage_out) : Len(stage_out[i]) >= 4 /\ Len(stage_out[i]) <= 14
        /\ InResponseOrder(stage_out, stage_in, 1)

\* A response of more terms than the cap has been cut to the cap
C16_WitnessCap ==
    /\ variant = "filter" /\ stage_pc = "done"
    /\ PieceCount(stage_in) > ext
    /\ Len(stage_out) = ext

\* A response holding a piece of 3 characters and a term with blanks around
\* it has been filtered to the trimmed term
C16_Witness ==
    /\ variant = "filter" /\ stage_pc = "done"
    /\ stage_in = JoinComma(<< <<"d", "n", "a">>, <<" ">> \o CellWall \o <<" ">> >>)
    /\ stage_out = <<CellWall>>

(***************************************************************************)
(* The other stages of the workflow (backend/biology_game.py)              *)
(***************************************************************************)

Range(list) == { list[i] : i \in 1..Len(list) }

AssistantMessage(content) == [role |-> "assistant", content |-> content]

\* the stage as it would be if it marked the research complete itself
research_topic_completing(state, r) ==
    IF r.normalize_ok /\ r.content_found /\ r.llm.ok
    THEN [state EXCEPT
            !.target_terms = TermFilter(r.llm.content, 10),
            !.research_complete = TRUE,
            !.messages = Append(@, AssistantMessage(<<"Found terms", Len(TermFilter(r.llm.content, 10))>>))]
    ELSE [state EXCEPT
            !.target_terms = <<>>,
            !.messages = Append(@, AssistantMessage(<<"Error researching topic">>))]

\* lines 65-176, the searches of lines 89-142 summarised by whether they
\* yield content.  r.normalize_ok: the call of line 85 returns;
\* r.content_found: some search attempt fetched a page; r.llm: the
\* extraction call of line 157.
research_topic(state, r) ==
    IF r.normalize_ok /\ r.content_found /\ r.llm.ok
    THEN LET terms == TermFilter(r.llm.content, 10)
         IN  [state EXCEPT
                !.target_terms = terms,
                !.messages = Append(@, AssistantMessage(<<"Found terms", Len(terms)>>))]
    ELSE [state EXCEPT
            !.target_terms = <<>>,
            !.messages = Append(@, AssistantMessage(<<"Error researching topic">>))]

\* lines 302, 305, 354
TargetTemplate(topic) == <<"A biological term related to", topic>>
\* lines 338, 341, 355
DistractorTemplate == <<"A biological term from a different topic area">>

\* What json.loads gives in the model when it succeeds: a description for
\* every term asked for ("parsed_all") or a dictionary without the terms
\* ("parsed_none").
ParsedDescriptions(terms, d) ==
    IF d = "parsed_all" THEN [term \in Range(terms) |-> <<"description of", term>>]
    ELSE <<>>

\* lines 270-305.  d: the generation call raises ("raise"), its text is not
\* JSON ("bad_json"), or it parses.
generate_target_descriptions(topic, terms, d) ==
    IF terms = <<>> THEN <<>>
    ELSE IF d \in {"raise", "bad_json"}
    THEN [term \in Range(terms) |-> TargetTemplate(topic)]
    ELSE ParsedDescriptions(terms, d)

\* lines 307-341
generate_distractor_descriptions(terms, d) ==
    IF terms = <<>> THEN <<>>
    ELSE IF d \in {"raise", "bad_json"}
    THEN [term \in Range(terms) |-> DistractorTemplate]
    ELSE ParsedDescriptions(terms, d)

\* lines 256-362: both branches are awaited; neither can raise
generate_descriptions(state, dt, dd) ==
    [state EXCEPT
        !.target_descriptions =
            [set |-> TRUE,
             map |-> generate_target_descriptions(state.topic, state.target_terms, dt)],
        !.distractor_descriptions =
            [set |-> TRUE,
             map |-> generate_distractor_descriptions(state.distractor_terms, dd)],
        !.messages = Append(@, AssistantMessage(<<"Generated descriptions for all terms">>))]

(***************************************************************************)
(* The description stage step by step: asyncio.gather (lines 346-349)      *)
(* schedules the two branches; each runs to its generation call, and       *)
(* resumes when the call returns or raises, in any order.                  *)
(***************************************************************************)

\* How the generation call of a branch can go: it raises, its text is not
\* JSON, or it parses to a dictionary with or without the terms
DescriptionOutcomes == {"raise", "bad_json", "parsed_all", "parsed_none"}

Branches == {"target", "distractor"}

Scheduled == [pc |-> "scheduled", map |-> <<>>, failed |-> FALSE]

\* The terms a branch describes (lines 262-263)
BranchTerms(state, b) ==
    IF b = "target" THEN state.target_terms ELSE state.distractor_terms

\* What a branch returns once its generation call is over (lines 275-305,
\* 312-341)
BranchReturn(state, b, d) ==
    [pc |-> "finished",
     map |-> IF b = "target"
             THEN generate_target_descriptions(state.topic, state.target_terms, d)
             ELSE generate_distractor_descriptions(state.distractor_terms, d),
     failed |-> d \in {"raise", "bad_json"}]

\* the join as it would be if a failure in one branch discarded the result
\* of the other
gather_results_discarding(t, d) ==
    IF t.failed \/ d.failed
    THEN [target |-> IF t.failed THEN t.map ELSE <<>>,
          distractor |-> IF d.failed THEN d.map ELSE <<>>]
    ELSE [target |-> t.map, distractor |-> d.map]

\* lines 346-349: the pair gather returns, each branch's own result
gather_results(t, d) == [target |-> t.map, distractor |-> d.map]

\* lines 357-362: the state returned
with_descriptions(state, maps) ==
    [state EXCEPT
        !.target_descriptions = [set |-> TRUE, map |-> maps.target],
        !.distractor_descriptions = [set |-> TRUE, map |-> maps.distractor],
        !.messages = Append(@, AssistantMessage(<<"Generated descriptions for all terms">>))]

\* The term lists the stage is entered with
DescribedTargets == { <<>>, <<Gene>>, <<Gene, CellWall>> }
DescribedDistractors == { <<>>, <<Gene>>, FallbackDistractors }

DescInit ==
    /\ variant = "descriptions"
    /\ \E tt \in DescribedTargets, dt \in DescribedDistractors :
           stage_in = [initial_state(<<"K", "i", "d", "n", "e", "y">>) EXCEPT
                          !.target_terms = tt, !.distractor_terms = dt]
    /\ ext \in [target : DescriptionOutcomes, distractor : DescriptionOutcomes]
    /\ stage_out = [b \in Branches |-> Scheduled]
    /\ stage_pc = "call"
    /\ ScoreIdle
    /\ GridIdle
    /\ ServerIdle

\* line 346: gather is awaited, both branches are scheduled
Gather ==
    /\ stage_pc = "call"
    /\ variant = "descriptions"
    /\ stage_pc' = "gather"
    /\ UNCHANGED <<variant, stage_in, ext, stage_out, scoreVars, gridVars, serverVars>>

\* lines 272-285 / 309-322: a branch runs to its generation call, or
\* returns {} when it has no terms
BranchStart(b) ==
    /\ stage_pc = "gather"
    /\ stage_out[b].pc = "scheduled"
    /\ stage_out' = [stage_out EXCEPT ![b] =
                        IF BranchTerms(stage_in, b) = <<>>
                        THEN [pc |-> "finished", map |-> <<>>, failed |-> FALSE]
                        ELSE [@ EXCEPT !.pc = "awaiting"]]
    /\ UNCHANGED <<variant, stage_in, ext, stage_pc, scoreVars, gridVars, serverVars>>

\* lines 285-305 / 322-341: the generation call of a branch returns or
\* raises, and the branch returns its map
BranchFinish(b) ==
    /\ stage_pc = "gather"
    /\ stage_out[b].pc = "awaiting"
    /\ stage_out' = [stage_out EXCEPT ![b] = BranchReturn(stage_in, b, ext[b])]
    /\ UNCHANGED <<variant, stage_in, ext, stage_pc, scoreVars, gridVars, serverVars>>

\* lines 346-362: gather returns once both branches have, and the stage
\* returns the state
Join ==
    /\ stage_pc = "gather"
    /\ \A b \in Branches : stage_out[b].pc = "finished"
    /\ stage_out' = [b \in Branches |-> stage_out[b]] @@
                     [state |-> with_descriptions(stage_in,
                                    gather_results(stage_out.target, stage_out.distractor))]
    /\ stage_pc' = "done"
    /\ UNCHANGED <<variant, stage_in, ext, scoreVars, gridVars, serverVars>>

DescNext ==
    \/ Gather
    \/ \E b \in Branches : BranchStart(b)
    \/ \E b \in Branches : BranchFinish(b)
    \/ Join

SpecDescriptions == DescInit /\ [][DescNext]_vars

\* The description stage has returned
Described == variant = "descriptions" /\ stage_pc = "done"

\* C17: after the annotation stage the target description map has an entry
\* for every target term and the distractor description map an entry for
\* every distractor term, whether the response parsed or the templated
\* fallback was used.
C17_EveryTermDescribed ==
    Described =>
        /\ Range(stage_in.target_terms) \subseteq
               DOMAIN stage_out.state.target_descriptions.map
        /\ Range(stage_in.distractor_terms) \subseteq
               DOMAIN stage_out.state.distractor_descriptions.map

\* The generation call, or the parsing, of branch b failed
BranchFailed(b) == ext[b] \in {"raise", "bad_json"}

\* The map of branch b when nothing fails in the other branch: the
\* templated fallback when b itself failed, else what its own response
\* parsed to
MapAlone(b) ==
    LET terms == BranchTerms(stage_in, b)
        template == IF b = "target" THEN TargetTemplate(stage_in.topic)
                    ELSE DistractorTemplate
    IN  IF terms = <<>> THEN <<>>
        ELSE IF BranchFailed(b) THEN [term \in Range(terms) |-> template]
        ELSE ParsedDescriptions(terms, ext[b])

\* C18: the two description branches are isolated under every interleaving
\* and completion order: the stage returns only after both branches have
\* finished, and each branch's map is what that branch alone gives: its
\* templated fallback when its own call or parse failed, its parsed
\* response otherwise, whatever happened in the other branch.
C18_BranchesIsolated ==
    /\ (variant = "descriptions" /\ stage_pc = "done") =>
            \A b \in Branches : stage_out[b].pc = "finished"
    /\ Described =>
            /\ stage_out.state.target_descriptions.map = MapAlone("target")
            /\ stage_out.state.distractor_descriptions.map = MapAlone("distractor")

\* The stage has returned after the distractor branch failed and the target
\* branch parsed its response: the target map is the parsed one
C18_Witness ==
    /\ Described
    /\ BranchFailed("distractor") /\ ext.target = "parsed_all"
    /\ stage_in.target_terms = <<Gene, CellWall>>
    /\ stage_in.distractor_terms # <<>>
    /\ DOMAIN stage_out.state.target_descriptions.map = {Gene, CellWall}
    /\ stage_out.state.distractor_descriptions.map =
           [term \in Range(stage_in.distractor_terms) |-> DistractorTemplate]

\* lines 364-374
finalize_research(state) ==
    [state EXCEPT
        !.research_complete = TRUE,
        !.messages = Append(@, AssistantMessage(<<"Research completed successfully">>))]

(***************************************************************************)
(* The API server (backend/game_api.py).  Flask's development server,      *)
(* started by app.run at line 204, serves each request on its own thread;  *)
(* the threads share game_store.                                           *)
(***************************************************************************)

Threads == {"t1", "t2"}

\* The gameIds random.choices (line 132) draws from, and a client can send
Ids == {"g1", "g2"}

Kidney == <<"K", "i", "d", "n", "e", "y">>

\* request.get_json() of a creation request: no body; a body without topic;
\* an empty topic; a topic
NoBody == [body |-> FALSE]
CreateBodies ==
    { NoBody,
      [body |-> TRUE, has_topic |-> FALSE],
      [body |-> TRUE, has_topic |-> TRUE, topic |-> <<>>],
      [body |-> TRUE, has_topic |-> TRUE, topic |-> Kidney] }

\* foundWords of a submission: a list of words, or a value that is no list
\* of strings
Malformed == [ok |-> FALSE, words |-> <<>>]
WordList(words) == [ok |-> TRUE, words |-> words]
FoundSamples == { WordList(<<>>), WordList(<<Upper(Gene), CellWall>>), Malformed }

\* request.get_json() of a submission: no body; a body without gameId; an
\* empty gameId; a gameId, with or without foundWords
SubmitBodies ==
    { NoBody,
      [body |-> TRUE, has_id |-> FALSE],
      [body |-> TRUE, has_id |-> TRUE, gameId |-> ""] }
    \cup { [body |-> TRUE, has_id |-> TRUE, gameId |-> g, has_found |-> FALSE] : g \in Ids }
    \cup { [body |-> TRUE, has_id |-> TRUE, gameId |-> g, has_found |-> TRUE,
            foundWords |-> f] : g \in Ids, f \in FoundSamples }

\* How the research stage can go: the normalisation call raises; no search
\* attempt yields content; the extraction call raises; it returns a text
ResearchOutcomes ==
    { [normalize_ok |-> FALSE, content_found |-> FALSE, llm |-> NotCalled],
      [normalize_ok |-> TRUE, content_found |-> FALSE, llm |-> NotCalled],
      [normalize_ok |-> TRUE, content_found |-> TRUE, llm |-> LlmRaises],
      [normalize_ok |-> TRUE, content_found |-> TRUE, llm |-> LlmReturns(<<>>)],
      [normalize_ok |-> TRUE, content_found |-> TRUE, llm |-> LlmReturns(Gene)],
      [normalize_ok |-> TRUE, content_found |-> TRUE,
       llm |-> LlmReturns(JoinComma(<<Gene, CellWall>>))] }

\* How the distractor stage can go
PipelineStageOutcomes ==
    { e \in StageOutcomes :
        /\ e.pick = 1
        /\ e.topics = LlmRaises
        /\ e.llm \in {NotCalled, LlmRaises, LlmReturns(Gene)} }


\* The generation call of generate_grid: it raises, or returns a full grid,
\* or a grid whose last line is missing
GridOutcomes ==
    LET full == [i \in 1..GridSize |-> Rep("A", GridSize)]
    IN  LlmOutcomes({ JoinLines(full), JoinLines(SubSeq(full, 1, GridSize - 1)) })

Fills == [1..GridSize -> [1..GridSize -> RandomLetters]]

\* str(e) of the exceptions the handlers answer with 500
NoTermsError == "LangGraph agents failed to find terms for the topic"
LlmError == "llm.ainvoke raised"
KeyError == "KeyError"
AttributeError == "AttributeError"

Reply(status, body) == [status |-> status, body |-> body]

\* No response sent yet
NoReply == Reply(0, <<>>)

NoLocals == [none |-> TRUE]

InSubmit(t) == pc[t] \in {"s_check", "s_read", "s_score", "s_delete"}

Init ==
    /\ game_store = <<>>
    /\ api_key \in BOOLEAN
    /\ pc = [t \in Threads |-> "idle"]
    /\ request = [t \in Threads |-> [kind |-> "none"]]
    /\ locals = [t \in Threads |-> NoLocals]
    /\ reply = [t \in Threads |-> NoReply]
    /\ consumed = {}
    /\ raced = {}
    /\ ScoreIdle
    /\ GridIdle
    /\ StageIdle

OtherVars == <<scoreVars, gridVars, stageVars>>

Idle(t) == pc[t] \in {"idle", "done"}

Respond(t, status, body) ==
    /\ reply' = [reply EXCEPT ![t] = Reply(status, body)]
    /\ pc' = [pc EXCEPT ![t] = "done"]

\* lines 25-28
HealthCheck(t) ==
    /\ Idle(t)
    /\ request' = [request EXCEPT ![t] = [kind |-> "health"]]
    /\ locals' = [locals EXCEPT ![t] = NoLocals]
    /\ Respond(t, 200, [status |-> "healthy"])
    /\ raced' = raced \ {t}
    /\ UNCHANGED <<game_store, api_key, consumed, OtherVars>>

\* lines 188-194
GetActiveGames(t) ==
    /\ Idle(t)
    /\ request' = [request EXCEPT ![t] = [kind |-> "active"]]
    /\ locals' = [locals EXCEPT ![t] = NoLocals]
    /\ Respond(t, 200, [active_games |-> Cardinality(DOMAIN game_store),
                        games |-> DOMAIN game_store])
    /\ raced' = raced \ {t}
    /\ UNCHANGED <<game_store, api_key, consumed, OtherVars>>

\* line 37 read as `topic is not None`: an empty topic passes
topic_not_none(data) == data.body /\ data.has_topic

\* lines 37 and 41: `topic` is truthy: there is a body, it has a topic, and
\* the topic is not the empty string
topic_given(data) == data.body /\ data.has_topic /\ data.topic # <<>>

\* create_game lines 33-58: the request is read and validated
BeginCreate(t) ==
    /\ Idle(t)
    /\ \E data \in CreateBodies :
        LET has == topic_given(data)
        IN  IF ~has
            THEN /\ request' = [request EXCEPT ![t] = [kind |-> "create", data |-> data]]
                 /\ Respond(t, 400, [error |-> "Topic is required"])
                 /\ locals' = [locals EXCEPT ![t] = NoLocals]
            ELSE /\ request' = [request EXCEPT ![t] = [kind |-> "create", data |-> data]]
                 /\ IF ~api_key
                    THEN /\ Respond(t, 500, [error |-> "API key not configured", details |-> ""])
                         /\ locals' = [locals EXCEPT ![t] = NoLocals]
                    ELSE /\ pc' = [pc EXCEPT ![t] = "research_topic"]
                         /\ locals' = [locals EXCEPT ![t] =
                                   [state |-> initial_state(data.topic), ran |-> <<>>]]
                         /\ reply' = [reply EXCEPT ![t] = NoReply]
    /\ raced' = raced \ {t}
    /\ UNCHANGED <<game_store, api_key, consumed, OtherVars>>

\* One node of the workflow has run: the state it returned, and its name
\* added to the nodes run for this request.
NodeRan(t, node, state, next) ==
    /\ locals' = [locals EXCEPT ![t] = [state |-> state, ran |-> Append(@.ran, node)]]
    /\ pc' = [pc EXCEPT ![t] = next]
    /\ UNCHANGED <<game_store, api_key, request, reply, consumed, raced, OtherVars>>

\* the node research_topic; the edge of line 58 leads on unconditionally
ResearchTopic(t) ==
    /\ pc[t] = "research_topic"
    /\ \E r \in ResearchOutcomes :
           NodeRan(t, "research_topic", research_topic(locals[t].state, r),
                   "find_distractors")

\* the node find_distractors; edge of line 59
FindDistractors(t) ==
    /\ pc[t] = "find_distractors"
    /\ \E e \in PipelineStageOutcomes :
           NodeRan(t, "find_distractors",
                   backend_find_distractors(locals[t].state, e).state,
                   "generate_descriptions")

\* the node generate_descriptions; edge of line 60
GenerateDescriptions(t) ==
    /\ pc[t] = "generate_descriptions"
    /\ \E dt \in DescriptionOutcomes, dd \in DescriptionOutcomes :
           NodeRan(t, "generate_descriptions",
                   generate_descriptions(locals[t].state, dt, dd), "finalize")

\* the node finalize; edge of line 61 to END
FinalizeResearch(t) ==
    /\ pc[t] = "finalize"
    /\ NodeRan(t, "finalize", finalize_research(locals[t].state), "check_terms")

\* What the handler keeps of the workflow's result (lines 113-114)
AfterWorkflow(result_state, ran) ==
    [target_words |-> result_state.target_terms,
     distractor_words |-> result_state.distractor_terms,
     research_complete |-> result_state.research_complete,
     ran |-> ran]

\* line 119 read as `target_words is None`: a list never is
no_target_words_none(words) == FALSE

\* line 119: `not target_words`
no_target_words(words) == words = <<>>

\* create_game_async lines 109-126 after the workflow has returned; the
\* exception of line 122 is answered by lines 88-91
CheckTerms(t) ==
    /\ pc[t] = "check_terms"
    /\ locals' = [locals EXCEPT ![t] = AfterWorkflow(@.state, @.ran)]
    /\ IF no_target_words(locals[t].state.target_terms)
       THEN Respond(t, 500, [error |-> "Failed to create game", details |-> NoTermsError])
       ELSE pc' = [pc EXCEPT ![t] = "generate_grid"] /\ UNCHANGED reply
    /\ UNCHANGED <<game_store, api_key, request, consumed, raced, OtherVars>>

\* create_game_async line 130: the call of line 405 raises (answered by
\* lines 88-91), or the grid is repaired from its text
GenerateGridCall(t) ==
    /\ pc[t] = "generate_grid"
    /\ \E g \in GridOutcomes, fill \in Fills :
        IF ~g.ok
        THEN /\ Respond(t, 500, [error |-> "Failed to create game", details |-> LlmError])
             /\ locals' = [locals EXCEPT ![t] =
                             [@ EXCEPT !.ran = Append(@, "generate_grid raised")]]
        ELSE /\ locals' = [locals EXCEPT ![t] =
                             [grid |-> generate_grid(g.content, GridSize, fill)] @@
                             [@ EXCEPT !.ran = Append(@, "generate_grid")]]
             /\ pc' = [pc EXCEPT ![t] = "store"]
             /\ UNCHANGED reply
    /\ UNCHANGED <<game_store, api_key, request, consumed, raced, OtherVars>>

\* create_game_async lines 136-142: what it returns
game_data_of(game_id, topic, targets, distractors, new_grid) ==
    [gameId |-> game_id,
     topic |-> topic,
     targetWords |-> targets,
     distractorWords |-> distractors,
     grid |-> new_grid]

\* create_game lines 66-71: the session stored
stored_session(game_data) ==
    [topic |-> game_data.topic,
     targetWords |-> game_data.targetWords,
     distractorWords |-> game_data.distractorWords,
     grid |-> game_data.grid]

\* the response as it would be if game_data were returned as it is
create_response_all(game_data) == game_data

\* create_game lines 76-81: the response
create_response(game_data) ==
    [gameId |-> game_data.gameId,
     topic |-> game_data.topic,
     grid |-> game_data.grid,
     totalTargetWords |-> Len(game_data.targetWords)]

\* create_game_async lines 132-142 and create_game lines 62-81: the id is
\* drawn, the session is stored under it, the response is returned
StoreGame(t) ==
    /\ pc[t] = "store"
    /\ \E game_id \in Ids :
        LET game_data == game_data_of(game_id, request[t].data.topic,
                                      locals[t].target_words,
                                      locals[t].distractor_words, locals[t].grid)
        IN  /\ game_store' =
                  [g \in DOMAIN game_store \cup {game_id} |->
                      IF g = game_id THEN stored_session(game_data)
                      ELSE game_store[g]]
            /\ Respond(t, 200, create_response(game_data))
    /\ locals' = [locals EXCEPT ![t] = [@ EXCEPT !.ran = Append(@, "store")]]
    /\ UNCHANGED <<api_key, request, consumed, raced, OtherVars>>

\* submit_game lines 147-153: the request is read; data.get on no body
\* raises and is answered by lines 184-186
BeginSubmit(t) ==
    /\ Idle(t)
    /\ \E data \in SubmitBodies :
        IF ~data.body
        THEN /\ request' = [request EXCEPT ![t] = [kind |-> "submit", has_id |-> FALSE]]
             /\ Respond(t, 500, [error |-> "Failed to submit game", details |-> AttributeError])
             /\ raced' = raced \ {t}
             /\ locals' = [locals EXCEPT ![t] = NoLocals]
        ELSE IF ~data.has_id \/ data.gameId = ""
        THEN /\ request' = [request EXCEPT ![t] = [kind |-> "submit", has_id |-> FALSE]]
             /\ Respond(t, 400, [error |-> "Game ID is required"])
             /\ raced' = raced \ {t}
             /\ locals' = [locals EXCEPT ![t] = NoLocals]
        ELSE LET others == { u \in Threads \ {t} :
                               InSubmit(u) /\ request[u].gameId = data.gameId }
             IN  /\ request' = [request EXCEPT ![t] =
                       [kind |-> "submit", has_id |-> TRUE,
                        gameId |-> data.gameId,
                        late |-> data.gameId \in consumed]]
                 /\ locals' = [locals EXCEPT ![t] =
                       [found_words |-> IF data.has_found THEN data.foundWords
                                        ELSE WordList(<<>>)]]
                 /\ pc' = [pc EXCEPT ![t] = "s_check"]
                 /\ raced' = IF others = {} THEN raced \ {t}
                             ELSE raced \cup others \cup {t}
                 /\ reply' = [reply EXCEPT ![t] = NoReply]
    /\ UNCHANGED <<game_store, api_key, consumed, OtherVars>>

\* lines 155-156
SubmitCheck(t) ==
    /\ pc[t] = "s_check"
    /\ IF request[t].gameId \notin DOMAIN game_store
       THEN /\ Respond(t, 404, [error |-> "Game not found"])
            /\ locals' = [locals EXCEPT ![t] = NoLocals]
       ELSE pc' = [pc EXCEPT ![t] = "s_read"] /\ UNCHANGED <<reply, locals>>
    /\ UNCHANGED <<game_store, api_key, request, consumed, raced, OtherVars>>

\* line 158 as it would be if the session were taken out of the store when
\* it is read
SubmitReadPop(t) ==
    /\ pc[t] = "s_read"
    /\ IF request[t].gameId \notin DOMAIN game_store
       THEN /\ Respond(t, 500, [error |-> "Failed to submit game", details |-> KeyError])
            /\ locals' = [locals EXCEPT ![t] = NoLocals]
            /\ UNCHANGED game_store
       ELSE /\ locals' = [locals EXCEPT ![t] =
                  [found_words |-> @.found_words,
                   game_data |-> game_store[request[t].gameId]]]
            /\ game_store' = [g \in DOMAIN game_store \ {request[t].gameId} |-> game_store[g]]
            /\ pc' = [pc EXCEPT ![t] = "s_score"]
            /\ UNCHANGED reply
    /\ UNCHANGED <<api_key, request, consumed, raced, OtherVars>>

\* line 158: a KeyError is answered by lines 184-186
SubmitRead(t) ==
    /\ pc[t] = "s_read"
    /\ IF request[t].gameId \notin DOMAIN game_store
       THEN /\ Respond(t, 500, [error |-> "Failed to submit game", details |-> KeyError])
            /\ locals' = [locals EXCEPT ![t] = NoLocals]
       ELSE /\ locals' = [locals EXCEPT ![t] =
                  [found_words |-> @.found_words,
                   game_data |-> game_store[request[t].gameId]]]
            /\ pc' = [pc EXCEPT ![t] = "s_score"]
            /\ UNCHANGED reply
    /\ UNCHANGED <<game_store, api_key, request, consumed, raced, OtherVars>>

\* lines 161-177: w.upper() raises on a foundWords that is no list of
\* strings (answered by lines 184-186)
SubmitScore(t) ==
    /\ pc[t] = "s_score"
    /\ IF ~locals[t].found_words.ok
       THEN /\ Respond(t, 500, [error |-> "Failed to submit game", details |-> AttributeError])
            /\ locals' = [locals EXCEPT ![t] = NoLocals]
       ELSE /\ locals' = [locals EXCEPT ![t] =
                  [found_words |-> @.found_words,
                   game_data |-> @.game_data,
                   result |-> [topic |-> @.game_data.topic] @@
                              submit_game_result(@.game_data.targetWords,
                                                 @.found_words.words)]]
            /\ pc' = [pc EXCEPT ![t] = "s_delete"]
            /\ UNCHANGED reply
    /\ UNCHANGED <<game_store, api_key, request, consumed, raced, OtherVars>>

\* lines 180-182: del raises KeyError when the key is gone
SubmitDelete(t) ==
    /\ pc[t] = "s_delete"
    /\ IF request[t].gameId \notin DOMAIN game_store
       THEN /\ Respond(t, 500, [error |-> "Failed to submit game", details |-> KeyError])
            /\ UNCHANGED <<game_store, consumed>>
       ELSE /\ game_store' = [g \in DOMAIN game_store \ {request[t].gameId} |-> game_store[g]]
            /\ Respond(t, 200, locals[t].result)
            /\ consumed' = consumed \cup {request[t].gameId}
    /\ locals' = [locals EXCEPT ![t] = NoLocals]
    /\ UNCHANGED <<api_key, request, raced, OtherVars>>

(***************************************************************************)
(* One creation request at a time, node by node                            *)
(***************************************************************************)

PipelineNext ==
    \/ BeginCreate("t1")
    \/ ResearchTopic("t1")
    \/ FindDistractors("t1")
    \/ GenerateDescriptions("t1")
    \/ FinalizeResearch("t1")
    \/ CheckTerms("t1")
    \/ GenerateGridCall("t1")
    \/ StoreGame("t1")

SpecPipeline == Init /\ [][PipelineNext]_vars

(***************************************************************************)
(* The server: requests served concurrently.  A creation request's         *)
(* workflow and grid generation touch nothing shared, so here they run in  *)
(* one step, between the validation and the store.                         *)
(***************************************************************************)

\* How the workflow and the grid generation go in the server model
ServerResearchOutcomes ==
    { r \in ResearchOutcomes :
        ~r.normalize_ok \/ (r.llm.ok /\ r.llm.content \in {<<>>, Gene}) }
ServerStageOutcomes ==
    { e \in PipelineStageOutcomes : e.search = "raise" \/ e.llm = LlmReturns(Gene) }
ServerDescriptionOutcomes == {"parsed_all"}
ServerGridOutcomes ==
    LlmOutcomes({ JoinLines([i \in 1..GridSize |-> Rep("A", GridSize)]) })
ServerFills == { [i \in 1..GridSize |-> [j \in 1..GridSize |-> l]] : l \in RandomLetters }

\* lines 46-63: the nodes in the order of the edges
workflow(state, r, e, dt, dd) ==
    finalize_research(
        generate_descriptions(
            backend_find_distractors(research_topic(state, r), e).state, dt, dd))

\* What create_game_async lines 99-126 leave of a request: the terms kept,
\* and whether line 122 raised
WorkflowResults(state) ==
    { AfterWorkflow(workflow(state, r, e, dt, dd),
                    <<"research_topic", "find_distractors",
                      "generate_descriptions", "finalize">>) :
        r \in ServerResearchOutcomes, e \in ServerStageOutcomes,
        dt \in ServerDescriptionOutcomes, dd \in ServerDescriptionOutcomes }

\* create_game_async lines 99-130 in one step
RunWorkflow(t) ==
    /\ pc[t] = "research_topic"
    /\ \E kept \in WorkflowResults(locals[t].state) :
        IF no_target_words(kept.target_words)
        THEN /\ Respond(t, 500, [error |-> "Failed to create game", details |-> NoTermsError])
             /\ locals' = [locals EXCEPT ![t] = kept]
        ELSE \E g \in ServerGridOutcomes, fill \in ServerFills :
            IF ~g.ok
            THEN /\ Respond(t, 500, [error |-> "Failed to create game", details |-> LlmError])
                 /\ locals' = [locals EXCEPT ![t] =
                                 [kept EXCEPT !.ran = Append(@, "generate_grid raised")]]
            ELSE /\ locals' = [locals EXCEPT ![t] =
                                 [grid |-> generate_grid(g.content, GridSize, fill)] @@
                                 [kept EXCEPT !.ran = Append(@, "generate_grid")]]
                 /\ pc' = [pc EXCEPT ![t] = "store"]
                 /\ UNCHANGED reply
    /\ UNCHANGED <<game_store, api_key, request, consumed, raced, OtherVars>>

Next ==
    \/ \E t \in Threads : HealthCheck(t)
    \/ \E t \in Threads : GetActiveGames(t)
    \/ \E t \in Threads : BeginCreate(t)
    \/ \E t \in Threads : RunWorkflow(t)
    \/ \E t \in Threads : StoreGame(t)
    \/ \E t \in Threads : BeginSubmit(t)
    \/ \E t \in Threads : SubmitCheck(t)
    \/ \E t \in Threads : SubmitRead(t)
    \/ \E t \in Threads : SubmitScore(t)
    \/ \E t \in Threads : SubmitDelete(t)

Spec == Init /\ [][Next]_vars

(***************************************************************************)
(* The research stage step by step (backend/biology_game.py lines 65-176): *)
(* the normalisation call, the loop over the search attempts, the loop     *)
(* over the results of a search, the disambiguation retry, the extraction  *)
(* call; then what create_game_async makes of the state returned.          *)
(***************************************************************************)

\* line 103: wikipedia.search(attempt, results=5)
SearchLimit == 5

\* line 115: page.content[:2000]
ContentLimit == 2000

\* line 90: the number of search attempts
Attempts == 4

Biology == <<" ", "b", "i", "o", "l", "o", "g", "y">>
Anatomy == <<" ", "a", "n", "a", "t", "o", "m", "y">>
Part == <<"p", "a", "r", "t">>

\* lines 90-95
search_attempts(normalized_topic, topic) ==
    << normalized_topic,
       topic,
       normalized_topic \o Biology,
       IF IsSubstring(Part, Lower(topic)) THEN normalized_topic \o Anatomy
       ELSE normalized_topic >>

\* A page's content: the attempt it was found in (no two fetches of one
\* attempt succeed: the first ends the attempt), and its number of characters
PageContent(page, chars) == [none |-> FALSE, page |-> page, chars |-> chars]

\* content = None (line 97)
NoContent == [none |-> TRUE, page |-> 0, chars |-> 0]

\* lines 115, 124: content[:2000]
Truncate(content) ==
    [content EXCEPT !.chars = IF @ > ContentLimit THEN ContentLimit ELSE @]

\* `if content` (lines 134, 141): neither None nor the empty string
Truthy(content) == ~content.none /\ content.chars > 0

\* The lengths of the pages fetched: an empty page, a short one, a long one
PageLengths == {0, 1500, 2500}

\* What wikipedia.search does: it raises, or returns 0 to 5 titles
SearchOutcomes ==
    { [raised |-> TRUE, results |-> 0] }
        \cup { [raised |-> FALSE, results |-> n] : n \in 0..SearchLimit }

\* What wikipedia.page does (line 114): it returns a page, raises
\* DisambiguationError with or without options, raises PageError, or
\* raises another exception
PageOutcomes ==
    { [kind |-> "page", chars |-> n] : n \in PageLengths }
        \cup { [kind |-> k, chars |-> 0] :
                 k \in {"disambiguation", "disambiguation_no_options",
                        "page_error", "raise"} }

\* What the fetch of the first option does (line 123): it returns a page or
\* raises
RetryOutcomes ==
    { [kind |-> "page", chars |-> n] : n \in PageLengths }
        \cup { [kind |-> "raise", chars |-> 0] }

\* What the normalisation call returns (line 85), before strip()
NormalizedSamples == { <<" ", "c", "e", "l", "l", " ">>, <<"k", "i", "d", "n", "e", "y">> }

\* The extraction call (line 157)
ExtractionOutcomes ==
    LlmOutcomes({ <<>>, Gene, JoinComma(<<Gene, CellWall>>) })

\* The local variables of _research_topic, and what has been issued so far:
\* queries, the searches issued; query, the text of the last one;
\* considered, the results of the current search a fetch was issued for;
\* retries, the retries issued for the current result; option, which option
\* the last retry asked for; first, the content of the first fetch that
\* succeeded; after, whether a search or a fetch was issued after it;
\* passed, the content given to the extraction call; raised, the kinds of
\* call that raised.
ResearchLocals ==
    [ normalized_topic |-> <<>>,
      attempt |-> 1,
      results |-> 0,
      result |-> 0,
      content |-> NoContent,
      queries |-> 0,
      query |-> <<>>,
      considered |-> 0,
      retries |-> 0,
      option |-> 0,
      first |-> NoContent,
      after |-> FALSE,
      passed |-> NoContent,
      raised |-> {},
      returned |-> FALSE,
      state |-> [none |-> TRUE],
      reply |-> NoReply ]

ResearchInit ==
    /\ variant = "research"
    /\ \E topic \in Topics : stage_in = initial_state(topic)
    /\ ext = [none |-> TRUE]
    /\ stage_out = ResearchLocals
    /\ stage_pc = "call"
    /\ ScoreIdle
    /\ GridIdle
    /\ ServerIdle

ResearchFrame == <<variant, stage_in, ext, scoreVars, gridVars, serverVars>>

\* lines 170-176 (r without content) and 164-168: the stage returns
ResearchReturns(l, r) ==
    [l EXCEPT !.returned = TRUE, !.state = research_topic(stage_in, r)]

\* a call of the given kind raises
Raising(l, call) == [l EXCEPT !.raised = @ \cup {call}]

\* lines 85-86: the normalisation call returns and its text is stripped, or
\* it raises and lines 170-176 return
Normalize ==
    /\ variant = "research"
    /\ stage_pc = "call"
    /\ \/ \E text \in NormalizedSamples :
            /\ stage_out' = [stage_out EXCEPT !.normalized_topic = Strip(text)]
            /\ stage_pc' = "search"
       \/ /\ stage_out' = ResearchReturns(Raising(stage_out, "normalize"),
                 [normalize_ok |-> FALSE, content_found |-> FALSE, llm |-> NotCalled])
          /\ stage_pc' = "done"
    /\ UNCHANGED ResearchFrame

\* `continue` of the loop of line 100 (lines 108, 139), or its next turn
\* after the `if content` of line 134 was false
NextAttempt(l) == [l EXCEPT !.attempt = @ + 1, !.results = 0, !.result = 0]

\* a search or a fetch is being issued: it comes after the first fetch that
\* succeeded, if there was one
Issued(l) == [l EXCEPT !.after = @ \/ ~l.first.none]

\* lines 100-108, 137-139: the search of the current attempt
Search ==
    /\ stage_pc = "search"
    /\ stage_out.attempt <= Attempts
    /\ LET l == [Issued(stage_out) EXCEPT
                    !.queries = @ + 1,
                    !.query = search_attempts(stage_out.normalized_topic,
                                              stage_in.topic)[stage_out.attempt],
                    !.considered = 0]
       IN  \E o \in SearchOutcomes :
            IF o.raised \/ o.results = 0
            THEN /\ stage_out' = NextAttempt(IF o.raised THEN Raising(l, "search") ELSE l)
                 /\ UNCHANGED stage_pc
            ELSE /\ stage_out' = [l EXCEPT !.results = o.results, !.result = 1]
                 /\ stage_pc' = "fetch"
    /\ UNCHANGED ResearchFrame

\* lines 115-118 / 124-127 and 134-135: the page was fetched; the loop over
\* the results is left, and the loop over the attempts too if the content
\* is not empty
GotPage(l, page, chars) ==
    LET content == Truncate(PageContent(page, chars))
        got == [l EXCEPT !.content = content,
                         !.first = IF @.none THEN content ELSE @]
    IN  /\ stage_out' = IF Truthy(content) THEN got ELSE NextAttempt(got)
        /\ stage_pc' = IF Truthy(content) THEN "extract" ELSE "search"

\* `continue` of the loop of line 111 (lines 129, 132): the next result, or
\* the end of the results and line 134
NextResult(l) ==
    IF l.result < l.results
    THEN /\ stage_out' = [l EXCEPT !.result = @ + 1]
         /\ stage_pc' = "fetch"
    ELSE /\ stage_out' = NextAttempt(l)
         /\ stage_pc' = "search"

\* lines 111-121, 130-139: the fetch of the current result
Fetch ==
    /\ stage_pc = "fetch"
    /\ LET l == [Issued(stage_out) EXCEPT !.considered = @ + 1, !.retries = 0, !.option = 0]
       IN  \E o \in PageOutcomes :
            CASE o.kind = "page" ->
                    GotPage(l, l.attempt, o.chars)
              [] o.kind = "disambiguation" ->
                    /\ stage_out' = Raising(l, "fetch")
                    /\ stage_pc' = "retry"
              [] o.kind = "page_error" -> NextResult(Raising(l, "fetch"))
              \* e.options[0] of line 121 raises IndexError, or the fetch
              \* raised another exception: line 137
              [] OTHER ->
                    /\ stage_out' = NextAttempt(Raising(l, "fetch"))
                    /\ stage_pc' = "search"
    /\ UNCHANGED ResearchFrame

\* the retry as it would be if a failed retry went on to the second option
RetryNextOption ==
    /\ stage_pc = "retry"
    /\ LET l == [Issued(stage_out) EXCEPT !.retries = @ + 1, !.option = @ + 1]
       IN  \E o \in RetryOutcomes :
            IF o.kind = "page"
            THEN GotPage(l, l.attempt, o.chars)
            ELSE IF l.option < 2
            THEN /\ stage_out' = Raising(l, "fetch")
                 /\ UNCHANGED stage_pc
            ELSE NextResult(Raising(l, "fetch"))
    /\ UNCHANGED ResearchFrame

\* lines 122-129: the fetch of the first disambiguation option
Retry ==
    /\ stage_pc = "retry"
    /\ LET l == [Issued(stage_out) EXCEPT !.retries = @ + 1, !.option = 1]
       IN  \E o \in RetryOutcomes :
            IF o.kind = "page"
            THEN GotPage(l, l.attempt, o.chars)
            ELSE NextResult(Raising(l, "fetch"))
    /\ UNCHANGED ResearchFrame

\* the end of the attempts as it would be without the test of line 141
NoContentIgnored ==
    /\ stage_pc = "search"
    /\ stage_out.attempt > Attempts
    /\ UNCHANGED stage_out
    /\ stage_pc' = "extract"
    /\ UNCHANGED ResearchFrame

\* lines 141-142 and 170-176: the attempts are over without content
NoContentFound ==
    /\ stage_pc = "search"
    /\ stage_out.attempt > Attempts
    /\ stage_out' = ResearchReturns(stage_out,
           [normalize_ok |-> TRUE, content_found |-> FALSE, llm |-> NotCalled])
    /\ stage_pc' = "done"
    /\ UNCHANGED ResearchFrame

\* lines 144-168, 170-176: the extraction call on the content
Extract ==
    /\ stage_pc = "extract"
    /\ \E o \in ExtractionOutcomes :
          stage_out' = ResearchReturns(
                [(IF o.ok THEN stage_out ELSE Raising(stage_out, "extract"))
                    EXCEPT !.passed = stage_out.content],
                [normalize_ok |-> TRUE, content_found |-> TRUE, llm |-> o])
    /\ stage_pc' = "done"
    /\ UNCHANGED ResearchFrame

\* How the stages after the research stage can go: the distractor stage
\* falls back or finds a term, the description calls raise or parse
LaterStageOutcomes ==
    { e \in PipelineStageOutcomes :
        e.search = "raise" \/ (e.page = "ok" /\ e.llm = LlmReturns(Gene)) }
LaterDescriptionOutcomes == {"raise", "parsed_all"}

\* game_api.py lines 109-126: the rest of the workflow runs on the state
\* returned, and the handler checks the target terms of the result
CallerCheck ==
    /\ variant = "research"
    /\ stage_pc = "done"
    /\ \E e \in LaterStageOutcomes, d \in LaterDescriptionOutcomes :
        LET result_state ==
                finalize_research(generate_descriptions(
                    backend_find_distractors(stage_out.state, e).state, d, d))
            kept == AfterWorkflow(result_state, <<>>)
        IN  stage_out' = [stage_out EXCEPT !.reply =
                IF no_target_words(kept.target_words)
                THEN Reply(500, [error |-> "Failed to create game", details |-> NoTermsError])
                ELSE Reply(0, [target_words |-> kept.target_words])]
    /\ stage_pc' = "checked"
    /\ UNCHANGED ResearchFrame

ResearchNext ==
    \/ Normalize
    \/ Search
    \/ Fetch
    \/ Retry
    \/ NoContentFound
    \/ Extract
    \/ CallerCheck

SpecResearch == ResearchInit /\ [][ResearchNext]_vars

\* Every external call returns or raises: a step that is possible is taken
SpecResearchFair == SpecResearch /\ WF_vars(ResearchNext)

\* The research stage is running, or has run
Researching == variant = "research"

\* The k-th search issued asks for the k-th listed attempt, and the k-th
\* fetch issued for a search asks for its k-th result
InListedOrder ==
    /\ stage_out.queries <= Attempts
    /\ stage_out.queries > 0 =>
            stage_out.query =
                search_attempts(stage_out.normalized_topic, stage_in.topic)[stage_out.queries]
    /\ stage_pc = "fetch" => stage_out.result = stage_out.considered + 1
    /\ stage_pc = "retry" => stage_out.result = stage_out.considered

\* C21: the search attempts are tried in the listed order and the results
\* in result order, and the first page fetched wins: once a fetch has
\* succeeded no further search or fetch is issued, and the content passed to
\* the term extraction is the content of that first page.
C21_FirstSuccessWins ==
    Researching =>
        /\ InListedOrder
        /\ ~stage_out.after
        /\ ~stage_out.passed.none => stage_out.passed = stage_out.first

\* The research stage has returned a state
ResearchReturned == Researching /\ stage_out.returned

\* The stage ends by returning a state, and an empty target list is
\* answered with the error of line 122 and status 500
NeverPropagates ==
    /\ (Researching /\ stage_pc \in {"done", "checked"}) => stage_out.returned
    /\ (Researching /\ stage_pc = "checked" /\ stage_out.state.target_terms = <<>>) =>
            stage_out.reply =
                Reply(500, [error |-> "Failed to create game", details |-> NoTermsError])

\* C22: the research stage never propagates an error: if the topic
\* normalisation, any search, any fetch or the extraction call raises, or
\* if no attempt yields content, the stage returns a state whose target
\* term list is empty, and the caller reports the empty list as the fatal
\* outcome with status 500.
C22_AnyErrorGivesEmpty ==
    /\ NeverPropagates
    /\ (ResearchReturned /\ (stage_out.raised # {} \/ ~Truthy(stage_out.content))) =>
            stage_out.state.target_terms = <<>>

\* C22 as amended: the stage never propagates an error; if the topic
\* normalisation or the extraction call raises, or if no attempt yields
\* content, it returns a state whose target term list is empty, and the
\* caller reports the empty list with status 500.  (A search or a fetch
\* that raises only moves the stage on to its next attempt or result.)
C22_FailureGivesEmpty ==
    /\ NeverPropagates
    /\ (ResearchReturned
            /\ ("normalize" \in stage_out.raised \/ "extract" \in stage_out.raised
                    \/ ~Truthy(stage_out.content))) =>
            stage_out.state.target_terms = <<>>

\* Every search raised, so that no attempt yielded content, and the caller
\* has answered with status 500
C22_Witness ==
    /\ Researching /\ stage_pc = "checked"
    /\ stage_out.raised = {"search"}
    /\ stage_out.queries = Attempts
    /\ stage_out.content.none
    /\ stage_out.state.target_terms = <<>>
    /\ stage_out.reply.status = 500

\* The work issued so far is within the bounds: at most 4 searches, at most
\* 5 results considered for a search, at most one retry for a result, and
\* that retry for the first option
ResearchBounded ==
    Researching =>
        /\ stage_out.queries <= 4
        /\ stage_out.considered <= 5
        /\ stage_out.retries <= 1
        /\ stage_out.retries = 1 => stage_out.option = 1

\* A retry that failed moves on to the next result, or, after the last
\* result, to the next attempt
RetryFailureMovesOn ==
    (stage_pc = "retry" /\ stage_out'.content = stage_out.content) =>
        \/ /\ stage_pc' = "fetch"
           /\ stage_out'.result = stage_out.result + 1
           /\ stage_out'.attempt = stage_out.attempt
        \/ /\ stage_out.result = stage_out.results
           /\ stage_pc' = "search"
           /\ stage_out'.attempt = stage_out.attempt + 1

\* The pipeline has reached Complete or Failed: the stage has returned and
\* the caller has gone on with the terms or answered 500
ResearchSettled ==
    /\ stage_pc = "checked"
    /\ stage_out.returned
    /\ stage_out.reply.status = 500 <=> stage_out.state.target_terms = <<>>

\* C25: the research stage always terminates with bounded external work:
\* provided every external call returns or raises, it issues at most 4
\* searches, considers at most 5 results per search, makes at most one
\* disambiguation retry per result (for the first option, moving to the next
\* result if the retry fails), and the pipeline then reaches Complete or
\* Failed.
C25_ResearchTerminatesBounded ==
    /\ []ResearchBounded
    /\ [][RetryFailureMovesOn]_vars
    /\ <>ResearchSettled

\* The most work the stage can issue: the fourth search is on its fifth
\* result, whose retry has been issued, after a retry that failed
C25_Witness ==
    /\ Researching
    /\ stage_out.queries = 4
    /\ stage_out.considered = 5
    /\ stage_out.retries = 1
    /\ stage_pc = "search"
    /\ stage_out.attempt = 5
    /\ stage_out.content.none

(***************************************************************************)
(* Properties of the creation pipeline                                     *)
(***************************************************************************)

\* A creation request that went through the workflow and has been answered
CreateAnswered(t) ==
    /\ pc[t] = "done"
    /\ request[t].kind = "create"
    /\ "ran" \in DOMAIN locals[t]

LaterStages ==
    {"find_distractors", "generate_descriptions", "finalize",
     "generate_grid", "generate_grid raised", "store"}

\* C4: when the research stage yields no target terms the request fails
\* without any later stage having run: no distractor selection, no
\* description annotation, no finalize (research_complete stays false), no
\* grid generation and no store.
C4_EmptyResearchStopsPipeline ==
    \A t \in Threads :
        (CreateAnswered(t) /\ locals[t].target_words = <<>>) =>
            /\ reply[t].status = 500
            /\ Range(locals[t].ran) \cap LaterStages = {}
            /\ ~locals[t].research_complete

\* C5: a creation request whose research stage yielded a non-empty target
\* list is answered 200, whatever the calls of the distractor, description
\* and grid stages returned or raised.
C5_OnlyEmptyResearchIsFatal ==
    \A t \in Threads :
        (CreateAnswered(t) /\ locals[t].target_words # <<>>) =>
            reply[t].status = 200

\* The nodes in the order of the edges (lines 57-61)
StageOrder ==
    <<"research_topic", "find_distractors", "generate_descriptions", "finalize">>

\* The steps run for a request are the stages in their order, each once,
\* then the grid generation, then the store
RanInOrder(ran) ==
    /\ Len(ran) <= Len(StageOrder) + 2
    /\ \A i \in 1..Len(ran) :
          IF i <= Len(StageOrder) THEN ran[i] = StageOrder[i]
          ELSE IF i = Len(StageOrder) + 1
          THEN ran[i] \in {"generate_grid", "generate_grid raised"}
          ELSE ran[i] = "store" /\ ran[i - 1] = "generate_grid"

\* research_complete as the request holds it: in the workflow's state, or
\* in what the handler kept of it
ResearchComplete(t) ==
    IF "state" \in DOMAIN locals[t] THEN locals[t].state.research_complete
    ELSE locals[t].research_complete

\* C24: the pipeline stages run in the fixed order research, distractor
\* selection, annotation, finalize, each at most once per creation request
\* and none before its predecessor has completed; research_complete becomes
\* true only in finalize; grid synthesis and session creation happen only
\* after the pipeline has completed.
C24_StagesInOrder ==
    \A t \in Threads :
        "ran" \in DOMAIN locals[t] =>
            /\ RanInOrder(locals[t].ran)
            /\ ResearchComplete(t) <=> InList("finalize", locals[t].ran)
            /\ pc[t] \in {"generate_grid", "store"} => InList("finalize", locals[t].ran)
            /\ (pc[t] = "done" /\ reply[t].status = 200 /\ request[t].kind = "create") =>
                    Len(locals[t].ran) = Len(StageOrder) + 2

\* A creation request has been answered 200: the four stages, the grid
\* generation and the store have run, in this order
C24_Witness ==
    \E t \in Threads :
        /\ pc[t] = "done" /\ request[t].kind = "create" /\ reply[t].status = 200
        /\ locals[t].ran = StageOrder \o <<"generate_grid", "store">>
        /\ locals[t].research_complete
        /\ reply[t].body.gameId \in DOMAIN game_store

\* The fields of the workflow's state other than messages
StateFields ==
    {"topic", "target_terms", "distractor_terms", "target_descriptions",
     "distractor_descriptions", "research_complete"}

\* The fields a stage writes
OwnFields(node) ==
    CASE node = "research_topic" -> {"target_terms"}
      [] node = "find_distractors" -> {"distractor_terms"}
      [] node = "generate_descriptions" -> {"target_descriptions", "distractor_descriptions"}
      [] node = "finalize" -> {"research_complete"}

\* Thread t takes the step of a stage of the workflow
StageStep(t) ==
    /\ pc[t] \in Range(StageOrder)
    /\ pc'[t] # pc[t]

\* C26: each pipeline stage changes only its own fields apart from
\* appending to messages: research writes only target_terms, distractor
\* selection only distractor_terms, annotation only the two description
\* maps, finalize only research_complete; the topic is never changed and no
\* stage alters a field written by an earlier stage.
C26_StagesWriteOwnFields ==
    [][\A t \in Threads :
          StageStep(t) =>
              /\ "state" \in DOMAIN locals'[t]
              /\ DOMAIN locals'[t].state = DOMAIN locals[t].state
              /\ \A f \in StateFields \ OwnFields(pc[t]) :
                    locals'[t].state[f] = locals[t].state[f]
              /\ Len(locals'[t].state.messages) = Len(locals[t].state.messages) + 1
              /\ SubSeq(locals'[t].state.messages, 1, Len(locals[t].state.messages))
                    = locals[t].state.messages]_vars

\* The four stages have run and each has written its fields: the state
\* holds the topic it was given, the terms of both kinds, both description
\* maps, research_complete, and one message of each stage
C26_Witness ==
    \E t \in Threads :
        /\ pc[t] = "check_terms"
        /\ locals[t].state.topic = Kidney
        /\ locals[t].state.target_terms = <<Gene, CellWall>>
        /\ locals[t].state.distractor_terms = FallbackDistractors
        /\ locals[t].state.target_descriptions.set
        /\ DOMAIN locals[t].state.target_descriptions.map = {Gene, CellWall}
        /\ locals[t].state.research_complete
        /\ Len(locals[t].state.messages) = Len(StageOrder)

\* What a response may hold of the terms: the keys of term lists and
\* description maps
TermKeys ==
    {"targetWords", "distractorWords", "target_terms", "distractor_terms",
     "target_descriptions", "distractor_descriptions", "descriptions"}

\* C15: the response to a creation request never carries the target terms,
\* the distractor terms or the descriptions: a successful response holds
\* only gameId, topic, grid and the count totalTargetWords, while the
\* session stored under that gameId keeps the term lists.
C15_CreateResponseHidesTerms ==
    \A t \in Threads :
        (pc[t] = "done" /\ request[t].kind = "create") =>
            /\ DOMAIN reply[t].body \cap TermKeys = {}
            /\ reply[t].status = 200 =>
                  /\ DOMAIN reply[t].body = {"gameId", "topic", "grid", "totalTargetWords"}
                  /\ reply[t].body.gameId \in DOMAIN game_store
                  /\ LET session == game_store[reply[t].body.gameId]
                     IN  /\ {"targetWords", "distractorWords"} \subseteq DOMAIN session
                         /\ session.targetWords # <<>>
                         /\ reply[t].body.totalTargetWords = Len(session.targetWords)

\* A creation request has been answered 200 for a session of two target
\* terms and some distractor terms
C15_Witness ==
    \E t \in Threads :
        /\ pc[t] = "done"
        /\ request[t].kind = "create"
        /\ reply[t].status = 200
        /\ reply[t].body.totalTargetWords = 2
        /\ game_store[reply[t].body.gameId].distractorWords # <<>>

\* C14: creating a session never clobbers an existing one: no step replaces
\* the session held under an id by another one, so a stored session keeps
\* its own topic, target terms and grid for as long as it is stored.
C14_CreateNeverClobbers ==
    [][ \A g \in DOMAIN game_store :
            g \in DOMAIN game_store' => game_store'[g] = game_store[g] ]_vars

(***************************************************************************)
(* Properties of the session store under concurrent requests               *)
(***************************************************************************)

\* A submission that named a gameId and has been answered
SubmitAnswered(t) ==
    /\ pc[t] = "done"
    /\ request[t].kind = "submit"
    /\ request[t].has_id

\* The foundWords of the submission were a list of strings: scoring did not
\* raise
WellFormed(t) ==
    ~("details" \in DOMAIN reply[t].body /\ reply[t].body.details = AttributeError)

\* C2: a submission for a gameId that began after a submission for that
\* gameId had succeeded (and whose foundWords are a list of strings) is
\* answered 404.
C2_ConsumedAtMostOnce ==
    \A t \in Threads :
        (SubmitAnswered(t) /\ request[t].late /\ WellFormed(t)) => reply[t].status = 404

\* C3: of two submissions for the same gameId that were in progress at the
\* same time, at most one is answered 200, and when one is, the other is
\* answered 404.
C3_ConcurrentSubmitsExclusive ==
    \A t, u \in Threads :
        ( /\ t # u
          /\ SubmitAnswered(t) /\ SubmitAnswered(u)
          /\ request[t].gameId = request[u].gameId
          /\ {t, u} \subseteq raced
          /\ WellFormed(t) /\ WellFormed(u)
          /\ reply[t].status = 200 )
        => reply[u].status = 404

\* The body of a creation request names no topic: there is no body, no
\* topic field, or the topic is the empty string
TopicMissing(data) ==
    \/ ~data.body
    \/ ~data.has_topic
    \/ data.topic = <<>>

\* Thread t takes up a creation request without a topic in this step
TakesCreateWithoutTopic(t) ==
    /\ Idle(t)
    /\ request'[t].kind = "create"
    /\ TopicMissing(request'[t].data)
    /\ <<pc[t], request[t], reply[t], locals[t]>> #
           <<pc'[t], request'[t], reply'[t], locals'[t]>>

\* C12: a creation request whose topic is missing or empty is answered 400
\* in the step that reads it: the pipeline is not entered, no node and no
\* external call runs, and the session store is unchanged.
C12_MissingTopicRejected ==
    [][ \A t \in Threads :
            TakesCreateWithoutTopic(t) =>
                /\ reply'[t].status = 400
                /\ pc'[t] = "done"
                /\ locals'[t] = NoLocals
                /\ game_store' = game_store ]_vars

\* A creation request with an empty topic has been answered while a session
\* is stored
C12_Witness ==
    \E t \in Threads :
        /\ pc[t] = "done"
        /\ request[t].kind = "create"
        /\ request[t].data.body /\ request[t].data.has_topic
        /\ request[t].data.topic = <<>>
        /\ reply[t].status = 400
        /\ game_store # <<>>

\* C13: a submission in which gameId is missing (absent field, empty value,
\* or no JSON body at all) is answered 400.  (BeginSubmit, the only step of
\* such a request, leaves game_store unchanged.)
C13_MissingGameIdRejected ==
    \A t \in Threads :
        (pc[t] = "done" /\ request[t].kind = "submit" /\ ~request[t].has_id) =>
            reply[t].status = 400

\* The submission of thread t has been scored and not yet answered
Scored(t) == pc[t] = "s_delete"

\* What scoring returned for thread t: correct-found, missed, score, total
Scoring(t) ==
    <<locals[t].result.foundWords, locals[t].result.missedWords,
      locals[t].result.score10, locals[t].result.totalWords>>

\* Two scored submissions with the same target and found lists
SameLists(t, u) ==
    /\ Scored(t) /\ Scored(u)
    /\ locals[t].game_data.targetWords = locals[u].game_data.targetWords
    /\ locals[t].found_words = locals[u].found_words

UpperSet(list) == { Upper(list[i]) : i \in 1..Len(list) }

\* C20: distractor terms are never scored as correct: a found word that is
\* one of the session's distractor terms is not in the correct-found list of
\* a scored submission, and the target and distractor terms of every stored
\* session are disjoint under case-insensitive comparison.
C20_DistractorsNeverScored ==
    /\ \A g \in DOMAIN game_store :
          UpperSet(game_store[g].targetWords)
              \cap UpperSet(game_store[g].distractorWords) = {}
    /\ \A t \in Threads :
          Scored(t) =>
              \A w \in UpperSet(locals[t].found_words.words) :
                  w \in UpperSet(locals[t].game_data.distractorWords)
                      => ~InList(w, locals[t].result.foundWords)

\* C27: in every reachable state of the session store every stored session
\* has a non-empty target term list, so that a submission for a stored
\* session never divides by zero.
C27_StoredSessionsHaveTargets ==
    /\ \A g \in DOMAIN game_store : Len(game_store[g].targetWords) > 0
    /\ \A t \in Threads :
          pc[t] \in {"s_score", "s_delete"} => Len(locals[t].game_data.targetWords) > 0
    /\ \A t \in Threads : Scored(t) => locals[t].result.totalWords > 0

\* A submission for a stored session has been scored, while a creation
\* request whose research found no term was answered 500 and stored nothing
C27_Witness ==
    \E t, u \in Threads :
        /\ Scored(t)
        /\ request[t].gameId \in DOMAIN game_store
        /\ locals[t].result.totalWords = 1
        /\ pc[u] = "done" /\ request[u].kind = "create"
        /\ reply[u] = Reply(500, [error |-> "Failed to create game", details |-> NoTermsError])
        /\ Cardinality(DOMAIN game_store) = 1

\* Thread t takes the step
Acts(t) ==
    \/ pc'[t] # pc[t] \/ request'[t] # request[t]
    \/ reply'[t] # reply[t] \/ locals'[t] # locals[t]

\* The step is the one by which thread t's submission succeeds
SubmitSucceeds(t) ==
    /\ pc[t] = "s_delete" /\ pc'[t] = "done"
    /\ reply'[t].status = 200

\* C29: a session is removed from the store only by a submission that
\* succeeds: no step of a submission that ends in 400, 404 or 500 (scoring
\* that raised on a malformed foundWords included) changes the store, and
\* neither do the listing of the active games and the health check.
C29_OnlySuccessRemoves ==
    [][/\ \A g \in DOMAIN game_store \ DOMAIN game_store' :
            \E t \in Threads : SubmitSucceeds(t) /\ request[t].gameId = g
       /\ \A t \in Threads :
            (Acts(t) /\ request'[t].kind = "submit" /\ ~SubmitSucceeds(t)) =>
                game_store' = game_store
       /\ \A t \in Threads :
            (Acts(t) /\ request'[t].kind \in {"health", "active"}) =>
                game_store' = game_store]_vars

\* A submission for a gameId was answered 500 because its foundWords were
\* malformed; a later submission for the same gameId, not overlapping it,
\* was answered 200 and removed the session
C29_Witness ==
    \E t, u \in Threads :
        /\ t # u
        /\ SubmitAnswered(t) /\ SubmitAnswered(u)
        /\ request[t].gameId = request[u].gameId
        /\ ~request[t].late
        /\ reply[t] = Reply(500, [error |-> "Failed to submit game", details |-> AttributeError])
        /\ reply[u].status = 200
        /\ raced \cap {t, u} = {}
        /\ request[t].gameId \in consumed
        /\ request[t].gameId \notin DOMAIN game_store

====
